---- MODULE Spec2Model ----
(***************************************************************************)
(* FAIR Monte Carlo risk analysis: the distribution sampler                *)
(* (FAIRDistribution.sample), the simulation engine                        *)
(* (FAIRMonteCarloSimulation.run_simulation), its statistics               *)
(* (_calculate_statistics) and its presentation calls (print_results,      *)
(* plot_results, export_results), modelled from src/fair_monte_carlo.py,   *)
(* the script run_custom_scenario of src/custom_scenario_template.py and   *)
(* the Streamlit script of src/fair_dashboard.py.                          *)
(*                                                                         *)
(* Numbers.  The program computes with floats; the model computes with     *)
(* exact integers and fractions.  A sampled value is an integer point of   *)
(* the distribution's support, a probability or a statistic is a fraction  *)
(* [num, den] with den > 0, never reduced, compared by cross               *)
(* multiplication.  NaN and infinities are not modelled: the engine is     *)
(* driven with specs whose parameters are finite, and a sampler outcome    *)
(* computed from NaN or infinite parameters is flagged undefined.          *)
(*                                                                         *)
(* Randomness.  numpy's global random source is modelled by                *)
(* nondeterminism: each call of np.random.* may return any point of the    *)
(* support.  rngCalls counts the calls made on the random source and       *)
(* rngDraws the values drawn from it, since the start of the current       *)
(* run_simulation call.                                                    *)
(***************************************************************************)
EXTENDS Integers, Sequences, FiniteSets, TLC

VARIABLES
    \* ---- FAIRMonteCarloSimulation (the engine object) ----
    n_simulations,       \* self.n_simulations
    results,             \* self.results: None or the four stored sequences
    \* ---- the run_simulation call in progress ----
    pc,                  \* position in run_simulation
    cfg,                 \* the call's arguments
    \* (secondary_losses is np.where(has_secondary, secondary_samples, 0), or 0)
    tef_samples,         \* local tef_samples
    lef_samples,         \* local lef_samples (fractions)
    actual_events,       \* local actual_events
    annual_losses,       \* local annual_losses
    i,                   \* loop index (1-based; Python's i + 1)
    primary_losses,      \* local of the loop body: the primary-loss samples
    has_secondary,       \* local of the loop body: the Bernoulli trials
    secondary_samples,   \* the value of secondary_loss_dist.sample(k) in the body
    ret,                 \* what the call returned: None or the statistics
    err,                 \* the exception the call raised, NoError if none
    prev_results,        \* self.results when the call started
    rngCalls,            \* calls on the random source during this call
    rngDraws,            \* values drawn from the random source during this call
    \* ---- a stand-alone FAIRDistribution.sample call ----
    s_dist, s_size, s_out, s_pc,
    \* ---- a stand-alone _calculate_statistics call ----
    st_losses, st_lef, st_out, st_pc,
    \* ---- a caller's session with one engine ----
    callCount,           \* run_simulation calls that have returned or raised
    everReturned,        \* history: one of these calls has returned
    shown,               \* what the last print/plot/export call produced
    \* ---- custom_scenario_template.run_custom_scenario ----
    t_pc,                \* position in the script
    t_log,               \* what the script has reported so far
    \* ---- fair_dashboard: one browser session of the Streamlit script ----
    d_pc,                \* position in the script run started by a Run click
    widgets,             \* the values the input widgets hold
    session_state,       \* st.session_state: simulation_run, stats, sim
    page,                \* what the last script run put on the page
    origin               \* history: the last call that returned, and its inputs

engineVars == <<n_simulations, results, pc, cfg, tef_samples, lef_samples,
                actual_events, annual_losses, i, primary_losses, has_secondary,
                secondary_samples, ret, err, prev_results, rngCalls, rngDraws>>
sampleVars == <<s_dist, s_size, s_out, s_pc>>
statsVars == <<st_losses, st_lef, st_out, st_pc>>
sessionVars == <<callCount, everReturned, shown>>
scriptVars == <<t_pc, t_log>>
dashVars == <<d_pc, widgets, session_state, page, origin>>
vars == <<engineVars, sampleVars, statsVars, sessionVars, scriptVars, dashVars>>

(***************************************************************************)
(* Bounds of the model.                                                    *)
(***************************************************************************)
\* largest n_simulations of an engine
MaxSims == 2
\* largest count a Poisson draw returns, in an engine of one run
MaxEvents == 2
\* largest size of a stand-alone sample call
MaxSize == 2
\* largest length of the sequences given to a stand-alone statistics call
MaxLen == 3
\* largest number of run_simulation calls in a session
MaxCalls == 2

(***************************************************************************)
(* Optional values, fractions, sequences.                                  *)
(***************************************************************************)
\* Python's None for an optional number; a supplied number v is <<v>>
None == <<>>
Some(v) == <<v>>
IsNone(o) == o = <<>>
Val(o) == o[1]

Frac(a, b) == [num |-> a, den |-> b]
FracLeq(x, y) == x.num * y.den <= y.num * x.den
FracLess(x, y) == x.num * y.den < y.num * x.den
FracEq(x, y) == x.num * y.den = y.num * x.den
FracZero(x) == x.num = 0

Min2(a, b) == IF a <= b THEN a ELSE b
Max2(a, b) == IF a >= b THEN a ELSE b

\* all sequences of length k over V (none for a negative k)
SeqsOf(V, k) == IF k < 0 THEN {} ELSE [1..k -> V]

RECURSIVE SumSeq(_)
SumSeq(s) == IF Len(s) = 0 THEN 0 ELSE Head(s) + SumSeq(Tail(s))

RECURSIVE MinSeq(_)
MinSeq(s) == IF Len(s) = 1 THEN s[1] ELSE Min2(Head(s), MinSeq(Tail(s)))

RECURSIVE MaxSeq(_)
MaxSeq(s) == IF Len(s) = 1 THEN s[1] ELSE Max2(Head(s), MaxSeq(Tail(s)))

\* insertion of x into the sorted sequence s
RECURSIVE InsertSorted(_, _)
InsertSorted(x, s) ==
    IF Len(s) = 0 THEN <<x>>
    ELSE IF x <= Head(s) THEN <<x>> \o s
    ELSE <<Head(s)>> \o InsertSorted(x, Tail(s))

\* np.sort, as np.percentile and np.median apply it
RECURSIVE NpSort(_)
NpSort(s) == IF Len(s) = 0 THEN <<>> ELSE InsertSorted(Head(s), NpSort(Tail(s)))

(***************************************************************************)
(* FAIRDistribution                                                        *)
(***************************************************************************)
\* (min_val and max_val are always supplied as numbers, as every caller does;
\* mode_val, mean and std may be None)
Dist(t, mn, md, mx, me, sd) ==
    [dist_type |-> t, min_val |-> mn, mode_val |-> md, max_val |-> mx,
     mean |-> me, std |-> sd]

\* the outcome of a call: err = "" and the values returned, or the exception
\* raised; calls and draws are what the call took from the random source
\* (undefined: the values were computed from NaN or infinite parameters)
Returned(vals, c) ==
    [err |-> "", msg |-> <<>>, vals |-> vals, calls |-> c, draws |-> Len(vals),
     undefined |-> FALSE]
Raised(type, msg) ==
    [err |-> type, msg |-> msg, vals |-> <<>>, calls |-> 0, draws |-> 0,
     undefined |-> FALSE]
NoOutcome ==
    [err |-> "none", msg |-> <<>>, vals |-> <<>>, calls |-> 0, draws |-> 0,
     undefined |-> FALSE]

\* np.full(size, fill_value): no random draw; a negative size is an error
NpFull(size, v) ==
    IF size < 0 THEN {Raised("ValueError", <<"negative dimensions are not allowed">>)}
    ELSE {Returned([k \in 1..size |-> v], 0)}

\* one call np.random.<law>(..., size) whose values range over lo..hi
NpRandom(lo, hi, size) ==
    IF size < 0 THEN {Raised("ValueError", <<"negative dimensions are not allowed">>)}
    ELSE {Returned(v, 1) : v \in SeqsOf(lo..hi, size)}

\* lambda_param of the PERT branch
lambda_param == 4

\* largest value a lognormal draw returns in the model (its support is
\* unbounded above)
LognormalTop(d) == Max2(d.max_val, 1) + 1

\* dist_type 'pert'
SamplePert(d, size) ==
    IF IsNone(d.mode_val)
    THEN \* mu = (min + lambda * None + max) / (lambda + 2)
         {Raised("TypeError", <<"unsupported operand type(s) for *", "mode_val">>)}
    ELSE IF d.max_val = d.min_val
    THEN NpFull(size, d.min_val)
    ELSE LET w == d.max_val - d.min_val
             \* alpha = aN / w, beta = bN / w
             aN == w + lambda_param * (Val(d.mode_val) - d.min_val)
             bN == w + lambda_param * (d.max_val - Val(d.mode_val))
         IN  IF aN * w <= 0 THEN {Raised("ValueError", <<"a <= 0">>)}
             ELSE IF bN * w <= 0 THEN {Raised("ValueError", <<"b <= 0">>)}
             ELSE \* min_val + beta_samples * (max_val - min_val), beta in [0, 1]
                  NpRandom(Min2(d.min_val, d.max_val), Max2(d.min_val, d.max_val), size)

\* the branch of 'lognormal' that takes mu and sigma from mean and std
LognormalFromMoments(d, size) ==
    IF Val(d.mean) = 0
    THEN \* variance / (self.mean ** 2)
         {Raised("ZeroDivisionError", <<"float division by zero">>)}
    ELSE IF Val(d.std) = 0
    THEN \* sigma = 0: every value is exp(mu), the mean
         IF size < 0
         THEN {Raised("ValueError", <<"negative dimensions are not allowed">>)}
         ELSE {Returned([k \in 1..size |-> Val(d.mean)], 1)}
    ELSE NpRandom(1, Max2(Val(d.mean), 1) + 1, size)

\* the branch of 'lognormal' that takes mu and sigma from min, mode and max
LognormalFromRange(d, size) ==
    IF IsNone(d.mode_val)
    THEN {Raised("TypeError", <<"loop of ufunc does not support NoneType", "mode_val">>)}
    ELSE IF d.min_val > 0 /\ d.max_val >= 0 /\ d.max_val < d.min_val
    THEN \* sigma = (log(max) - log(min)) / 4 is negative or, for max = 0, -inf
         {Raised("ValueError", <<"sigma < 0">>)}
    ELSE IF d.min_val > 0 /\ Val(d.mode_val) > 0 /\ d.max_val > 0
    THEN NpRandom(1, LognormalTop(d), size)
    ELSE \* np.log of a non-positive number raises nothing: the parameters are
         \* -inf, inf or NaN, none of them a negative sigma, and the values
         \* drawn are 0, inf or NaN (shown as 0 and flagged undefined)
         IF size < 0
         THEN {Raised("ValueError", <<"negative dimensions are not allowed">>)}
         ELSE {[Returned([k \in 1..size |-> 0], 1) EXCEPT !.undefined = TRUE]}

\* a faulty variant of SampleLognormal: a mean alone selects the moments
SampleLognormalMeanOnly(d, size) ==
    IF ~IsNone(d.mean)
    THEN NpRandom(1, Max2(Val(d.mean), 1) + 1, size)
    ELSE LognormalFromRange(d, size)

\* dist_type 'lognormal'
SampleLognormal(d, size) ==
    IF ~IsNone(d.mean) /\ ~IsNone(d.std)
    THEN LognormalFromMoments(d, size)
    ELSE LognormalFromRange(d, size)

\* a faulty variant of SampleUniform: one value too many
SampleUniformOneMore(d, size) ==
    NpRandom(Min2(d.min_val, d.max_val), Max2(d.min_val, d.max_val), size + 1)

\* dist_type 'uniform'
SampleUniform(d, size) ==
    NpRandom(Min2(d.min_val, d.max_val), Max2(d.min_val, d.max_val), size)

\* dist_type 'triangular'
SampleTriangular(d, size) ==
    IF IsNone(d.mode_val)
    THEN {Raised("TypeError", <<"float() argument must be a number", "mode_val">>)}
    ELSE IF d.min_val > Val(d.mode_val) THEN {Raised("ValueError", <<"left > mode">>)}
    ELSE IF Val(d.mode_val) > d.max_val THEN {Raised("ValueError", <<"mode > right">>)}
    ELSE IF d.min_val = d.max_val THEN {Raised("ValueError", <<"left == right">>)}
    ELSE NpRandom(d.min_val, d.max_val, size)

\* a faulty variant of SampleUnknown: falls back to the uniform law
SampleUnknownAsUniform(d, size) ==
    NpRandom(Min2(d.min_val, d.max_val), Max2(d.min_val, d.max_val), size)

\* the final else of sample
SampleUnknown(d, size) ==
    {Raised("ValueError", <<"Unknown distribution type: ", d.dist_type>>)}

\* FAIRDistribution.sample(size): the set of its possible outcomes
Sample(d, size) ==
    IF d.dist_type = "pert" THEN SamplePert(d, size)
    ELSE IF d.dist_type = "lognormal" THEN SampleLognormal(d, size)
    ELSE IF d.dist_type = "uniform" THEN SampleUniform(d, size)
    ELSE IF d.dist_type = "triangular" THEN SampleTriangular(d, size)
    ELSE SampleUnknown(d, size)

(***************************************************************************)
(* _calculate_statistics                                                   *)
(***************************************************************************)
\* annual_losses[annual_losses > 0]
IsPositive(x) == x > 0
IsNonNegative(x) == x >= 0
\* a faulty variant of NonZeroLosses: annual_losses[annual_losses >= 0]
NonNegativeLosses(losses) == SelectSeq(losses, IsNonNegative)

NonZeroLosses(losses) == SelectSeq(losses, IsPositive)

\* a faulty variant of NpMean: integer division
NpMeanTruncated(a) == Frac(SumSeq(a) \div Len(a), 1)

\* np.mean of a non-empty sequence
NpMean(a) == Frac(SumSeq(a), Len(a))

\* np.median of a non-empty sequence: the middle of the sorted values, the mean
\* of the two middle ones for an even length
NpMedian(a) ==
    LET s == NpSort(a)
        n == Len(a)
    IN  IF n % 2 = 1 THEN Frac(2 * s[(n + 1) \div 2], 2)
        ELSE Frac(s[n \div 2] + s[n \div 2 + 1], 2)

\* np.std squared (the population variance): mean(x^2) - mean(x)^2
NpVar(a) ==
    LET n == Len(a)
        sq == [k \in 1..n |-> a[k] * a[k]]
    IN  Frac(n * SumSeq(sq) - SumSeq(a) * SumSeq(a), n * n)

\* a faulty variant of NpPercentile: interpolates over the values unsorted
NpPercentileUnsorted(a, q) ==
    LET n == Len(a)
        h == q * (n - 1)
        lo == h \div 100
        r == h % 100
        hi == IF lo + 2 <= n THEN lo + 2 ELSE n
    IN  Frac(100 * a[lo + 1] + r * (a[hi] - a[lo + 1]), 100)

\* np.percentile(a, q), default linear interpolation: the virtual index
\* q/100 * (n-1) into the sorted values, interpolating between its neighbours
NpPercentile(a, q) ==
    LET s == NpSort(a)
        n == Len(a)
        h == q * (n - 1)
        lo == h \div 100
        r == h % 100
        hi == IF lo + 2 <= n THEN lo + 2 ELSE n
    IN  Frac(100 * s[lo + 1] + r * (s[hi] - s[lo + 1]), 100)

PercentileKeys == {"10th", "25th", "50th", "75th", "90th", "95th", "99th"}
PercentileRank(k) ==
    CASE k = "10th" -> 10 [] k = "25th" -> 25 [] k = "50th" -> 50
      [] k = "75th" -> 75 [] k = "90th" -> 90 [] k = "95th" -> 95
      [] k = "99th" -> 99

\* the fractions lef_samples as their numerators over the common denominator
Nums(fs) == [k \in 1..Len(fs) |-> fs[k].num]
OverDen(f, d) == Frac(f.num, f.den * d)

\* the stats dictionary (ale_std is given by its square)
StatsDict(losses, lef) ==
    LET non_zero_losses == NonZeroLosses(losses)
        lden == lef[1].den
    IN  [ale_mean |-> NpMean(losses),
         ale_median |-> NpMedian(losses),
         ale_std |-> [squared |-> NpVar(losses)],
         ale_min |-> MinSeq(losses),
         ale_max |-> MaxSeq(losses),
         percentiles |-> [k \in PercentileKeys |-> NpPercentile(losses, PercentileRank(k))],
         lef_mean |-> OverDen(NpMean(Nums(lef)), lden),
         lef_median |-> OverDen(NpMedian(Nums(lef)), lden),
         probability_of_loss |-> Frac(Len(non_zero_losses), Len(losses)),
         mean_loss_given_event |->
             IF Len(non_zero_losses) > 0 THEN NpMean(non_zero_losses) ELSE Frac(0, 1)]

\* _calculate_statistics(annual_losses, lef_samples): the dictionary, or the
\* exception of np.min on an empty array (np.mean, np.median and np.std of an
\* empty array only warn and give NaN)
CalculateStatistics(losses, lef) ==
    IF Len(losses) = 0
    THEN [err |-> "ValueError",
          msg |-> <<"zero-size array to reduction operation minimum which has no identity">>,
          stats |-> None]
    ELSE [err |-> "", msg |-> <<>>, stats |-> Some(StatsDict(losses, lef))]

(***************************************************************************)
(* FAIRMonteCarloSimulation.run_simulation                                 *)
(***************************************************************************)
NoError == [type |-> "", msg |-> <<>>, at |-> ""]
Error(type, msg, at) == [type |-> type, msg |-> msg, at |-> at]

Config(tef, vuln, primary, secondary, sprob) ==
    [tef_dist |-> tef, vuln_prob |-> vuln, primary_loss_dist |-> primary,
     secondary_loss_dist |-> secondary, secondary_loss_prob |-> sprob]

\* a faulty variant of LefOf: lef_samples = tef_samples, vuln_prob left out
LefWithoutVuln(tef, vuln) == [k \in 1..Len(tef) |-> Frac(tef[k] * vuln.den, vuln.den)]

\* lef_samples = tef_samples * vuln_prob, element-wise
LefOf(tef, vuln) == [k \in 1..Len(tef) |-> Frac(tef[k] * vuln.num, vuln.den)]

\* largest count a Poisson draw returns in an engine of n runs: the counts of
\* all runs together stay within MaxEvents, and a run may always have 1 event
EventCap(n) == IF n <= 1 THEN MaxEvents ELSE Max2(1, MaxEvents \div n)

\* a faulty variant of NpPoisson: the counts do not follow the rates given
NpPoissonAnyRate(lam) ==
    {Returned(ev, 1) : ev \in [1..Len(lam) -> 0..EventCap(Len(lam))]}

\* np.random.poisson(lam) for an array lam: one count per entry, 0 where the
\* rate is 0; a negative rate is an error
NpPoisson(lam) ==
    IF \E k \in 1..Len(lam) : lam[k].num < 0
    THEN {Raised("ValueError", <<"lam < 0 or lam contains NaNs">>)}
    ELSE {Returned(ev, 1) :
            ev \in {f \in [1..Len(lam) -> 0..EventCap(Len(lam))] :
                      \A k \in 1..Len(lam) : lam[k].num = 0 => f[k] = 0}}

\* a faulty variant of NpZeros: np.ones(n)
NpOnes(n) == [k \in 1..n |-> 1]

\* np.zeros(n)
NpZeros(n) == [k \in 1..n |-> 0]

\* np.random.random(k) < secondary_loss_prob: random() lies in [0, 1), so a
\* probability of 1 or more makes every entry True
HasSecondary(k, sprob) ==
    {b \in [1..k -> BOOLEAN] : FracLeq(Frac(1, 1), sprob) => \A j \in 1..k : b[j]}

\* a faulty variant of NpWhere: every secondary sample is kept
NpWhereAll(b, vals) == vals

\* np.where(has_secondary, secondary_samples, 0)
NpWhere(b, vals) == [j \in 1..Len(vals) |-> IF b[j] THEN vals[j] ELSE 0]

\* a faulty variant of SecondaryApplies: secondary_loss_prob > 0 is not tested
SecondaryAppliesIfGiven(c) == ~IsNone(c.secondary_loss_dist)

\* the secondary-loss branch is taken
SecondaryApplies(c) ==
    ~IsNone(c.secondary_loss_dist) /\ FracLess(Frac(0, 1), c.secondary_loss_prob)

\* what one pass through the loop body did: the exception raised, if any, the
\* annual loss, what was taken from the random source, and the values assigned
\* to primary_losses and has_secondary and returned by the secondary sampler
\* (None where the statement was not reached)
LoopOutcome(e, loss, calls, draws, p, b, s) ==
    [err |-> e, loss |-> loss, calls |-> calls, draws |-> draws,
     primary |-> p, trials |-> b, secondary |-> s]

\* the body of the loop for a run with k > 0 events: the annual loss of the run
\* or the sampler's exception, and what it took from the random source
LossOfRun(c, k) ==
    UNION {
      IF p.err # ""
      THEN {LoopOutcome(Error(p.err, p.msg, "primary_loss_dist.sample"),
                        0, 0, 0, None, None, None)}
      ELSE IF SecondaryApplies(c)
      THEN UNION {
             { IF s.err # ""
               THEN LoopOutcome(Error(s.err, s.msg, "secondary_loss_dist.sample"),
                                0, p.calls + 1, p.draws + k,
                                Some(p.vals), Some(b), None)
               ELSE LoopOutcome(NoError,
                                SumSeq(p.vals) + SumSeq(NpWhere(b, s.vals)),
                                p.calls + 1 + s.calls, p.draws + k + s.draws,
                                Some(p.vals), Some(b), Some(s.vals))
               : s \in Sample(Val(c.secondary_loss_dist), k) }
             : b \in HasSecondary(k, c.secondary_loss_prob) }
      ELSE \* secondary_losses = 0
           {LoopOutcome(NoError, SumSeq(p.vals), p.calls, p.draws,
                        Some(p.vals), None, None)}
      : p \in Sample(c.primary_loss_dist, k) }

\* a faulty variant of WriteLoss: a running total over the runs
WriteLossRunning(losses, idx, loss) ==
    [losses EXCEPT ![idx] = loss + (IF idx > 1 THEN losses[idx - 1] ELSE 0)]

\* annual_losses[i] = np.sum(primary_losses) + np.sum(secondary_losses)
WriteLoss(losses, idx, loss) == [losses EXCEPT ![idx] = loss]

\* the value of a local after a statement that assigned it unless a is None
Assigned(old, a) == IF IsNone(a) THEN old ELSE Val(a)

\* self.results = {...}
ResultsDict(losses, lef, events, tef) ==
    [annual_losses |-> losses, lef_samples |-> lef,
     actual_events |-> events, tef_samples |-> tef]

\* the exception leaves run_simulation
Fail(e) ==
    /\ pc' = "failed"
    /\ err' = e

\* sim.run_simulation(tef_dist, vuln_prob, primary_loss_dist, secondary_loss_dist,
\* secondary_loss_prob) is called
RunSimulation(c) ==
    /\ pc = "idle"
    /\ pc' = "sample_tef"
    /\ cfg' = Some(c)
    /\ prev_results' = results
    /\ tef_samples' = <<>>
    /\ lef_samples' = <<>>
    /\ actual_events' = <<>>
    /\ annual_losses' = <<>>
    /\ i' = 0
    /\ primary_losses' = <<>>
    /\ has_secondary' = <<>>
    /\ secondary_samples' = <<>>
    /\ ret' = None
    /\ err' = NoError
    /\ rngCalls' = 0
    /\ rngDraws' = 0
    /\ UNCHANGED <<n_simulations, results>>

\* tef_samples = tef_dist.sample(self.n_simulations);
\* lef_samples = tef_samples * vuln_prob
SampleTef ==
    /\ pc = "sample_tef"
    /\ \E o \in Sample(Val(cfg).tef_dist, n_simulations) :
         IF o.err # ""
         THEN /\ Fail(Error(o.err, o.msg, "tef_dist.sample"))
              /\ UNCHANGED <<tef_samples, lef_samples, rngCalls, rngDraws>>
         ELSE /\ pc' = "poisson"
              /\ tef_samples' = o.vals
              /\ lef_samples' = LefOf(o.vals, Val(cfg).vuln_prob)
              /\ rngCalls' = rngCalls + o.calls
              /\ rngDraws' = rngDraws + o.draws
              /\ err' = err
    /\ UNCHANGED <<n_simulations, results, cfg, actual_events, annual_losses, i,
                   primary_losses, has_secondary, secondary_samples, ret,
                   prev_results>>

\* actual_events = np.random.poisson(lef_samples);
\* annual_losses = np.zeros(self.n_simulations)
DrawEvents ==
    /\ pc = "poisson"
    /\ \E o \in NpPoisson(lef_samples) :
         IF o.err # ""
         THEN /\ Fail(Error(o.err, o.msg, "np.random.poisson"))
              /\ UNCHANGED <<actual_events, annual_losses, i, rngCalls, rngDraws>>
         ELSE /\ pc' = "loop"
              /\ actual_events' = o.vals
              /\ annual_losses' = NpZeros(n_simulations)
              /\ i' = 1
              /\ rngCalls' = rngCalls + o.calls
              /\ rngDraws' = rngDraws + o.draws
              /\ err' = err
    /\ UNCHANGED <<n_simulations, results, cfg, tef_samples, lef_samples,
                   primary_losses, has_secondary, secondary_samples, ret,
                   prev_results>>

\* one iteration of: for i in range(self.n_simulations)
LoopIteration ==
    /\ pc = "loop"
    /\ i <= n_simulations
    /\ IF actual_events[i] > 0
       THEN \E o \in LossOfRun(Val(cfg), actual_events[i]) :
              /\ rngCalls' = rngCalls + o.calls
              /\ rngDraws' = rngDraws + o.draws
              /\ primary_losses' = Assigned(primary_losses, o.primary)
              /\ has_secondary' = Assigned(has_secondary, o.trials)
              /\ secondary_samples' = Assigned(secondary_samples, o.secondary)
              /\ IF o.err.type # ""
                 THEN /\ Fail(o.err)
                      /\ UNCHANGED <<annual_losses, i>>
                 ELSE /\ annual_losses' = WriteLoss(annual_losses, i, o.loss)
                      /\ i' = i + 1
                      /\ UNCHANGED <<pc, err>>
       ELSE /\ i' = i + 1
            /\ UNCHANGED <<pc, err, annual_losses, rngCalls, rngDraws,
                           primary_losses, has_secondary, secondary_samples>>
    /\ UNCHANGED <<n_simulations, results, cfg, tef_samples, lef_samples,
                   actual_events, ret, prev_results>>

\* the loop is over: self.results = {...}
StoreResults ==
    /\ pc = "loop"
    /\ i > n_simulations
    /\ results' = Some(ResultsDict(annual_losses, lef_samples, actual_events, tef_samples))
    /\ pc' = "statistics"
    /\ UNCHANGED <<n_simulations, cfg, tef_samples, lef_samples, actual_events,
                   annual_losses, i, primary_losses, has_secondary,
                   secondary_samples, ret, err, prev_results, rngCalls, rngDraws>>

\* stats_dict = self._calculate_statistics(annual_losses, lef_samples);
\* return stats_dict
ReturnStatistics ==
    /\ pc = "statistics"
    /\ LET o == CalculateStatistics(annual_losses, lef_samples)
       IN  IF o.err # ""
           THEN /\ Fail(Error(o.err, o.msg, "_calculate_statistics"))
                /\ ret' = ret
           ELSE /\ pc' = "done"
                /\ ret' = o.stats
                /\ err' = err
    /\ UNCHANGED <<n_simulations, results, cfg, tef_samples, lef_samples,
                   actual_events, annual_losses, i, primary_losses, has_secondary,
                   secondary_samples, prev_results, rngCalls, rngDraws>>

(***************************************************************************)
(* The configurations the engine is driven with.                           *)
(***************************************************************************)
TefDists ==
    { Dist("uniform", 0, None, 1, None, None),
      Dist("pert", 1, Some(1), 1, None, None),
      Dist("pert", 1, None, 1, None, None),
      Dist("normal", 1, Some(1), 2, None, None) }

PrimaryDists ==
    { Dist("uniform", 0, None, 1, None, None),
      Dist("lognormal", 1, Some(1), 1, None, None),
      Dist("gamma", 1, Some(1), 2, None, None) }

SecondaryDists ==
    { None,
      Some(Dist("triangular", 0, Some(0), 1, None, None)),
      Some(Dist("beta", 0, Some(0), 1, None, None)) }

\* vuln_prob: -0.5, 0, 0.5, 1.5
VulnProbs == {Frac(-1, 2), Frac(0, 1), Frac(1, 2), Frac(3, 2)}

\* secondary_loss_prob: -0.5, 0 (the default), 0.5, 1.5
SecondaryProbs == {Frac(-1, 2), Frac(0, 1), Frac(1, 2), Frac(3, 2)}

Configs ==
    { Config(t, v, p, s, q) :
        t \in TefDists, v \in VulnProbs, p \in PrimaryDists,
        s \in SecondaryDists, q \in SecondaryProbs }

\* FAIRMonteCarloSimulation(n_simulations): the engine just constructed
EngineInit ==
    /\ n_simulations \in -1..MaxSims
    /\ results = None
    /\ pc = "idle"
    /\ cfg = None
    /\ prev_results = None
    /\ tef_samples = <<>>
    /\ lef_samples = <<>>
    /\ actual_events = <<>>
    /\ annual_losses = <<>>
    /\ i = 0
    /\ primary_losses = <<>>
    /\ has_secondary = <<>>
    /\ secondary_samples = <<>>
    /\ ret = None
    /\ err = NoError
    /\ rngCalls = 0
    /\ rngDraws = 0

(***************************************************************************)
(* Stand-alone calls of the two pure functions.                            *)
(***************************************************************************)
SampleTypes == {"pert", "lognormal", "uniform", "triangular", "normal", "PERT"}
KnownTypes == {"pert", "lognormal", "uniform", "triangular"}
Modes == {None, Some(0), Some(1), Some(2)}

Means == {None, Some(0), Some(3)}
Stds == {None, Some(0), Some(1)}

SampleDists ==
    UNION { { Dist(t, mn, md, mx, me, sd) :
                t \in SampleTypes, mn \in 0..2, md \in Modes, mx \in 0..2 } :
            me \in Means, sd \in Stds }

SampleIdle ==
    /\ s_dist = Dist("uniform", 0, None, 0, None, None)
    /\ s_size = 0
    /\ s_out = NoOutcome
    /\ s_pc = "unused"

SampleInit ==
    /\ s_dist \in SampleDists
    /\ s_size \in -1..MaxSize
    /\ s_out = NoOutcome
    /\ s_pc = "ready"

\* d.sample(size)
CallSample ==
    /\ s_pc = "ready"
    /\ s_out' \in Sample(s_dist, s_size)
    /\ s_pc' = "returned"
    /\ UNCHANGED <<s_dist, s_size>>

\* the losses and rates a stand-alone statistics call is given: equally long
LossValues == -1..2
LefValues == {Frac(0, 2), Frac(1, 2)}

StatsIdle ==
    /\ st_losses = <<>>
    /\ st_lef = <<>>
    /\ st_out = [err |-> "none", msg |-> <<>>, stats |-> None]
    /\ st_pc = "unused"

StatsInit ==
    /\ \E n \in 0..MaxLen :
         /\ st_losses \in SeqsOf(LossValues, n)
         /\ st_lef \in SeqsOf(LefValues, n)
    /\ st_out = [err |-> "none", msg |-> <<>>, stats |-> None]
    /\ st_pc = "ready"

\* self._calculate_statistics(annual_losses, lef_samples)
CallStatistics ==
    /\ st_pc = "ready"
    /\ st_out' = CalculateStatistics(st_losses, st_lef)
    /\ st_pc' = "returned"
    /\ UNCHANGED <<st_losses, st_lef>>

(***************************************************************************)
(* print_results, plot_results, export_results                             *)
(***************************************************************************)
\* what a presentation call produced: the exception raised, if any, and the
\* text printed, the figure drawn, the JSON file and the CSV file written
\* (None where there is none)
Output(op, e, console, figure, json, csv) ==
    [op |-> op, err |-> e, console |-> console, figure |-> figure,
     json |-> json, csv |-> csv]
NoOutput == Output("", NoError, None, None, None, None)

\* print_results(stats): the lines printed, with the n_simulations of the
\* engine; stats is the caller's record, None if the caller has none
PrintResults(n, stats) ==
    IF IsNone(stats)
    THEN Output("print_results",
                Error("TypeError", <<"'NoneType' object is not subscriptable">>,
                      "print_results"),
                None, None, None, None)
    ELSE LET st == Val(stats)
         IN  Output("print_results", NoError,
                    Some([n_simulations |-> n,
                          ale_mean |-> st.ale_mean,
                          ale_median |-> st.ale_median,
                          ale_std |-> st.ale_std,
                          percentiles |-> st.percentiles,
                          lef_mean |-> st.lef_mean,
                          lef_median |-> st.lef_median,
                          probability_of_loss |-> st.probability_of_loss,
                          mean_loss_given_event |->
                              IF FracLess(Frac(0, 1), st.mean_loss_given_event)
                              THEN Some(st.mean_loss_given_event) ELSE None]),
                    None, None, None)

\* a faulty variant of NpSortCall: ndarray.sort(), which sorts in place
SortInPlace(a) == [arg |-> NpSort(a), value |-> NpSort(a)]

\* np.sort(a): the array passed is left as it is, a sorted copy is returned
NpSortCall(a) == [arg |-> a, value |-> NpSort(a)]

\* exceedance_prob = 1 - np.arange(1, n + 1) / n
ExceedanceProb(n) == [k \in 1..n |-> Frac(n - k, n)]

\* the figure plot_results draws from the stored arrays and the statistics
Figure(losses, sorted_losses, lef, st) ==
    [hist_annual_losses |-> losses,
     sorted_losses |-> sorted_losses,
     exceedance_prob |-> ExceedanceProb(Len(sorted_losses)),
     hist_lef_samples |-> lef,
     lines |-> <<st.ale_mean, st.ale_median, st.percentiles["95th"],
                 st.percentiles["99th"], st.lef_mean>>]

\* plot_results(stats, save_path=...): the possible outcomes, each with the
\* stored results as the call leaves them; drawing or saving the figure may
\* fail in the plotting library
PlotResults(r, stats) ==
    IF IsNone(r)
    THEN {[out |-> Output("plot_results",
                          Error("ValueError",
                                <<"No simulation results available. Run simulation first.">>,
                                "plot_results"),
                          None, None, None, None),
           results |-> r]}
    ELSE IF IsNone(stats)
    THEN {[out |-> Output("plot_results",
                          Error("TypeError",
                                <<"'NoneType' object is not subscriptable">>,
                                "plot_results"),
                          None, None, None, None),
           results |-> r]}
    ELSE LET o == NpSortCall(Val(r).annual_losses)
             after == Some([Val(r) EXCEPT !.annual_losses = o.arg])
         IN  {[out |-> Output("plot_results", NoError, None,
                              Some(Figure(o.arg, o.value, Val(r).lef_samples,
                                          Val(stats))),
                              None, None),
               results |-> after],
              [out |-> Output("plot_results",
                              Error("OSError", <<"plt.savefig">>, "plot_results"),
                              None, None, None, None),
               results |-> after]}

\* json_filename = filename.replace('.csv', '.json'), a file name being
\* <<stem, extension>>
JsonFilename(filename) ==
    IF filename[2] = ".csv" THEN <<filename[1], ".json">> ELSE filename

\* json_data of export_results
JsonData(n, stats, scenario_name) ==
    [scenario_name |-> scenario_name, n_simulations |-> n, statistics |-> stats]

\* a faulty variant of ExportFrame: two columns hold each other's data
ExportFrameSwapped(r) ==
    [columns |-> <<"annual_loss", "loss_event_frequency",
                   "threat_event_frequency", "actual_events">>,
     annual_loss |-> r.actual_events,
     loss_event_frequency |-> r.lef_samples,
     threat_event_frequency |-> r.tef_samples,
     actual_events |-> r.annual_losses]

\* the DataFrame export_results writes with to_csv(filename, index=False)
ExportFrame(r) ==
    [columns |-> <<"annual_loss", "loss_event_frequency",
                   "threat_event_frequency", "actual_events">>,
     annual_loss |-> r.annual_losses,
     loss_event_frequency |-> r.lef_samples,
     threat_event_frequency |-> r.tef_samples,
     actual_events |-> r.actual_events]

\* raw_data_df of the dashboard's CSV download
RawDataDf(r) ==
    [columns |-> <<"annual_loss", "loss_event_frequency",
                   "threat_event_frequency", "actual_events">>,
     annual_loss |-> r.annual_losses,
     loss_event_frequency |-> r.lef_samples,
     threat_event_frequency |-> r.tef_samples,
     actual_events |-> r.actual_events]

\* export_results(stats, scenario_name, filename): the possible outcomes;
\* opening or writing either file may fail
ExportResults(n, r, stats, scenario_name, filename) ==
    LET json == Some([file |-> JsonFilename(filename),
                      data |-> JsonData(n, stats, scenario_name)])
        failed(at, j) ==
            Output("export_results", Error("OSError", <<at>>, "export_results"),
                   None, None, j, None)
    IN  {failed("open", None)}
          \cup IF IsNone(r)
               THEN {Output("export_results", NoError, None, None, json, None)}
               ELSE {Output("export_results", NoError, None, None, json,
                            Some([file |-> filename, frame |-> ExportFrame(Val(r))])),
                     failed("to_csv", json)}

(***************************************************************************)
(* A caller's session: several run_simulation calls on one engine, with    *)
(* print_results, plot_results and export_results between them.            *)
(***************************************************************************)
\* the arguments the caller gives to export_results
ScenarioName == "scenario"
Filename == <<"results", ".csv">>

SessionIdle ==
    /\ callCount = 0
    /\ everReturned = FALSE
    /\ shown = NoOutput

\* run_simulation has returned or raised: the caller is in control again
CallEnds ==
    /\ pc \in {"done", "failed"}
    /\ pc' = "idle"
    /\ callCount' = callCount + 1
    /\ everReturned' = (everReturned \/ pc = "done")
    /\ UNCHANGED <<n_simulations, results, cfg, tef_samples, lef_samples,
                   actual_events, annual_losses, i, primary_losses, has_secondary,
                   secondary_samples, ret, err, prev_results, rngCalls, rngDraws,
                   shown>>

\* what a presentation call leaves alone, self.results apart
presentationFrame ==
    <<n_simulations, pc, cfg, tef_samples, lef_samples, actual_events,
      annual_losses, i, primary_losses, has_secondary, secondary_samples, ret,
      err, prev_results, rngCalls, rngDraws, callCount, everReturned>>

\* sim.print_results(stats), stats being what the last call returned
SessionPrint ==
    /\ pc = "idle"
    /\ shown' = PrintResults(n_simulations, ret)
    /\ UNCHANGED <<presentationFrame, results>>

\* sim.plot_results(stats, save_path=...)
SessionPlot ==
    /\ pc = "idle"
    /\ \E o \in PlotResults(results, ret) :
         /\ shown' = o.out
         /\ results' = o.results
    /\ UNCHANGED presentationFrame

\* sim.export_results(stats, scenario_name, filename)
SessionExport ==
    /\ pc = "idle"
    /\ shown' \in ExportResults(n_simulations, results, ret, ScenarioName, Filename)
    /\ UNCHANGED <<presentationFrame, results>>

\* the configurations of a session: a valid one, one whose TEF sampler fails
\* and one whose primary-loss sampler fails
SessionConfigs ==
    { Config(Dist("uniform", 0, None, 1, None, None), Frac(1, 2),
             Dist("lognormal", 1, Some(1), 1, None, None), None, Frac(0, 1)),
      Config(Dist("normal", 1, Some(1), 2, None, None), Frac(1, 2),
             Dist("lognormal", 1, Some(1), 1, None, None), None, Frac(0, 1)),
      Config(Dist("uniform", 0, None, 1, None, None), Frac(1, 2),
             Dist("gamma", 1, Some(1), 2, None, None), None, Frac(0, 1)) }

(***************************************************************************)
(* custom_scenario_template.run_custom_scenario                            *)
(***************************************************************************)
ScriptIdle ==
    /\ t_pc = "unused"
    /\ t_log = <<>>

\* a faulty variant of TryExcept: no try statement, the exception leaves the
\* script
Uncaught(e, next) == IF e.type = "" THEN next ELSE "aborted"

\* try: ... except Exception as e: print(...): the statement after the try
\* statement is reached whether or not an exception e was raised
TryExcept(e, next) == next

\* what the script reports after a try statement
Report(e, ok, failed) == IF e.type = "" THEN ok ELSE failed

\* what a step of the script leaves alone in the engine, self.results apart
scriptFrame ==
    <<n_simulations, pc, cfg, tef_samples, lef_samples, actual_events,
      annual_losses, i, primary_losses, has_secondary, secondary_samples, ret,
      err, prev_results, rngCalls, rngDraws, callCount, everReturned>>

\* stats = sim.run_simulation(...) is called, outside any try statement
ScriptRun(c) ==
    /\ t_pc = "run"
    /\ RunSimulation(c)
    /\ t_pc' = "running"
    /\ UNCHANGED <<t_log, callCount, everReturned, shown>>

\* run_simulation raised: the exception leaves run_custom_scenario
ScriptAbort ==
    /\ t_pc = "running"
    /\ pc = "failed"
    /\ t_pc' = "aborted"
    /\ UNCHANGED <<scriptFrame, results, shown, t_log>>

\* run_simulation returned: sim.print_results(stats) and the business context
ScriptPrint ==
    /\ t_pc = "running"
    /\ pc = "done"
    /\ shown' = PrintResults(n_simulations, ret)
    /\ t_log' = Append(t_log, "results printed")
    /\ t_pc' = "plot"
    /\ UNCHANGED <<scriptFrame, results>>

\* try: sim.plot_results(...) except Exception: "Could not save plot"
ScriptPlot ==
    /\ t_pc = "plot"
    /\ \E o \in PlotResults(results, ret) :
         /\ shown' = o.out
         /\ results' = o.results
         /\ t_log' = Append(t_log, Report(o.out.err, "Plot saved", "Could not save plot"))
         /\ t_pc' = TryExcept(o.out.err, "export")
    /\ UNCHANGED scriptFrame

\* try: sim.export_results(...) except Exception: "Could not export results"
ScriptExport ==
    /\ t_pc = "export"
    /\ \E o \in ExportResults(n_simulations, results, ret, ScenarioName, Filename) :
         /\ shown' = o
         /\ t_log' = Append(t_log, Report(o.err, "Results exported",
                                          "Could not export results"))
         /\ t_pc' = TryExcept(o.err, "recommendations")
    /\ UNCHANGED <<scriptFrame, results>>

\* the recommendations are printed
ScriptRecommend ==
    /\ t_pc = "recommendations"
    /\ t_log' = Append(t_log, "recommendations")
    /\ t_pc' = "summary"
    /\ UNCHANGED <<scriptFrame, results, shown>>

\* the executive summary and the closing lines are printed
ScriptSummary ==
    /\ t_pc = "summary"
    /\ t_log' = Append(t_log, "summary")
    /\ t_pc' = "end"
    /\ UNCHANGED <<scriptFrame, results, shown>>

\* the configurations of the script: PERT frequency and lognormal losses as in
\* the template, and two that a filled-in template can hold by mistake
TemplateConfigs ==
    { Config(Dist("pert", 0, Some(1), 1, None, None), Frac(1, 2),
             Dist("lognormal", 1, Some(1), 1, None, None),
             Some(Dist("lognormal", 1, Some(1), 1, None, None)), Frac(1, 2)),
      Config(Dist("pert", 0, None, 1, None, None), Frac(1, 2),
             Dist("lognormal", 1, Some(1), 1, None, None),
             Some(Dist("lognormal", 1, Some(1), 1, None, None)), Frac(1, 2)),
      Config(Dist("pert", 0, Some(1), 1, None, None), Frac(1, 2),
             Dist("Lognormal", 1, Some(1), 1, None, None),
             Some(Dist("lognormal", 1, Some(1), 1, None, None)), Frac(1, 2)) }

(***************************************************************************)
(* fair_dashboard: the Streamlit script.  Every interaction runs the       *)
(* script from its first line with the widgets' current values; a Run      *)
(* click runs it with run_button true.  Amounts are scaled down: the       *)
(* widgets' least values (1 for the TEF fields, 100 for the primary loss,  *)
(* 0 for the secondary loss) are 1, 1 and 0 here, and the slider of        *)
(* n_simulations offers small counts.  The client fields, which no claim   *)
(* reads, are left out.                                                    *)
(***************************************************************************)
Widgets(n, tef, vuln, primary, secondary, sprob) ==
    [n_simulations |-> n,
     tef_min |-> tef[1], tef_mode |-> tef[2], tef_max |-> tef[3],
     total_vulnerability |-> vuln,
     primary_min |-> primary[1], primary_mode |-> primary[2],
     primary_max |-> primary[3],
     secondary_min |-> secondary[1], secondary_mode |-> secondary[2],
     secondary_max |-> secondary[3],
     secondary_prob |-> sprob]

\* the arguments the handler of the Run button passes to run_simulation
DashConfig(w) ==
    Config(Dist("pert", w.tef_min, Some(w.tef_mode), w.tef_max, None, None),
           w.total_vulnerability,
           Dist("lognormal", w.primary_min, Some(w.primary_mode), w.primary_max,
                None, None),
           Some(Dist("lognormal", w.secondary_min, Some(w.secondary_mode),
                     w.secondary_max, None, None)),
           w.secondary_prob)

\* the engine object sim: FAIRMonteCarloSimulation(n_simulations) after its run
Engine(n, r) == [n_simulations |-> n, results |-> r]

\* st.session_state after the three 'if ... not in st.session_state' lines
InitialSessionState == [simulation_run |-> FALSE, stats |-> None, sim |-> None]

\* a faulty variant of StoreInSession: the engine is not stored
StoreStatsOnly(ss, stats, sim) ==
    [ss EXCEPT !.simulation_run = TRUE, !.stats = stats]

\* st.session_state.simulation_run = True; .stats = stats; .sim = sim
StoreInSession(ss, stats, sim) ==
    [ss EXCEPT !.simulation_run = TRUE, !.stats = stats, !.sim = Some(sim)]

\* export_data["simulation_parameters"]
SimulationParameters(w) ==
    [n_simulations |-> w.n_simulations,
     tef |-> [min |-> w.tef_min, mode |-> w.tef_mode, max |-> w.tef_max],
     vulnerability |-> w.total_vulnerability,
     primary_loss |-> [min |-> w.primary_min, mode |-> w.primary_mode,
                       max |-> w.primary_max],
     secondary_loss |-> [min |-> w.secondary_min, mode |-> w.secondary_mode,
                         max |-> w.secondary_max],
     secondary_probability |-> w.secondary_prob]

\* export_data of the JSON download
ExportData(w, stats) ==
    [simulation_parameters |-> SimulationParameters(w), results |-> stats]

\* the SIMULATION PARAMETERS lines of the text report: the values they print
\* (the two loss ranges are printed as minimum - maximum)
ReportParameters(w) ==
    [n_simulations |-> w.n_simulations,
     tef |-> <<w.tef_min, w.tef_mode, w.tef_max>>,
     vulnerability |-> w.total_vulnerability,
     primary_range |-> <<w.primary_min, w.primary_max>>,
     secondary_range |-> <<w.secondary_min, w.secondary_max>>,
     secondary_probability |-> w.secondary_prob]

\* what a script run puts on the page: the results section or not, the
\* exception that ended the run if one did, and the data of the downloads
Page(section, e, stats, raw, export, report) ==
    [results |-> section, error |-> e, stats |-> stats, raw_data |-> raw,
     export_data |-> export, report |-> report]

NoResultsPage == Page(FALSE, NoError, None, None, None, None)

\* 'if st.session_state.simulation_run and st.session_state.stats:' and the
\* section it guards, which reads sim.results[...] and the widgets' values
Render(ss, w) ==
    IF ~(ss.simulation_run /\ ~IsNone(ss.stats))
    THEN NoResultsPage
    ELSE IF IsNone(ss.sim)
    THEN Page(TRUE,
              Error("AttributeError",
                    <<"'NoneType' object has no attribute 'results'">>, "dashboard"),
              ss.stats, None, None, None)
    ELSE IF IsNone(Val(ss.sim).results)
    THEN Page(TRUE,
              Error("TypeError", <<"'NoneType' object is not subscriptable">>,
                    "dashboard"),
              ss.stats, None, None, None)
    ELSE Page(TRUE, NoError, ss.stats,
              Some(RawDataDf(Val(Val(ss.sim).results))),
              Some(ExportData(w, Val(ss.stats))),
              Some(ReportParameters(w)))

\* the settings of the widgets in the model: two that run, one whose TEF
\* sampler fails (minimum above the most likely value) and one whose
\* primary-loss sampler fails when an event occurs (maximum below the minimum)
DashSettings ==
    { Widgets(1, <<1, 1, 1>>, Frac(1, 2), <<1, 1, 1>>, <<1, 1, 1>>, Frac(0, 1)),
      Widgets(2, <<2, 2, 2>>, Frac(1, 1), <<1, 1, 1>>, <<1, 1, 1>>, Frac(0, 1)),
      Widgets(1, <<2, 1, 3>>, Frac(1, 2), <<1, 1, 1>>, <<1, 1, 1>>, Frac(1, 2)),
      Widgets(1, <<1, 1, 1>>, Frac(1, 2), <<2, 1, 1>>, <<0, 1, 1>>, Frac(1, 2)) }

NoOrigin == [params |-> None, stats |-> None, sim |-> None]

DashIdle ==
    /\ d_pc = "unused"
    /\ widgets = <<>>
    /\ session_state = InitialSessionState
    /\ page = NoResultsPage
    /\ origin = NoOrigin

\* what a step of the dashboard leaves alone in the engine, self.n_simulations,
\* self.results and the position apart
dashFrame ==
    <<cfg, tef_samples, lef_samples, actual_events, annual_losses, i,
      primary_losses, has_secondary, secondary_samples, ret, err, prev_results,
      rngCalls, rngDraws, shown>>

\* the Run button is clicked: the script runs with run_button true up to
\* sim = FAIRMonteCarloSimulation(n_simulations=n_simulations)
DashClick ==
    /\ d_pc = "idle"
    /\ pc = "idle"
    /\ callCount < MaxCalls
    /\ n_simulations' = widgets.n_simulations
    /\ results' = None
    /\ d_pc' = "created"
    /\ UNCHANGED <<pc, dashFrame, callCount, everReturned, widgets,
                   session_state, page, origin>>

\* stats = sim.run_simulation(tef_dist=tef, ...) is called
DashRun ==
    /\ d_pc = "created"
    /\ RunSimulation(DashConfig(widgets))
    /\ d_pc' = "running"
    /\ UNCHANGED <<callCount, everReturned, shown, widgets, session_state,
                   page, origin>>

\* run_simulation returned: the three assignments to st.session_state, then
\* the rest of the script run
DashStore ==
    /\ d_pc = "running"
    /\ pc = "done"
    /\ session_state' =
         StoreInSession(session_state, ret, Engine(n_simulations, results))
    /\ origin' = [params |-> Some(widgets), stats |-> ret,
                  sim |-> Some(Engine(n_simulations, results))]
    /\ page' = Render(session_state', widgets)
    /\ pc' = "idle"
    /\ d_pc' = "idle"
    /\ callCount' = callCount + 1
    /\ everReturned' = TRUE
    /\ UNCHANGED <<n_simulations, results, dashFrame, widgets>>

\* run_simulation raised: the exception ends the script run before the
\* assignments and before the results section
DashFail ==
    /\ d_pc = "running"
    /\ pc = "failed"
    /\ page' = Page(FALSE, err, None, None, None, None)
    /\ pc' = "idle"
    /\ d_pc' = "idle"
    /\ callCount' = callCount + 1
    /\ UNCHANGED <<n_simulations, results, dashFrame, everReturned, widgets,
                   session_state, origin>>

\* a widget is given another value: the script runs again, run_button false
DashWidgetChange ==
    /\ d_pc = "idle"
    /\ \E w \in DashSettings \ {widgets} :
         /\ widgets' = w
         /\ page' = Render(session_state, w)
    /\ UNCHANGED <<engineVars, sessionVars, d_pc, session_state, origin>>

\* the script runs again with the widgets as they are (a download is clicked,
\* the page is reloaded in the same session)
DashRerun ==
    /\ d_pc = "idle"
    /\ page' = Render(session_state, widgets)
    /\ UNCHANGED <<engineVars, sessionVars, d_pc, widgets, session_state, origin>>

(***************************************************************************)
(* Specifications.                                                         *)
(***************************************************************************)
\* one run_simulation call on a fresh engine
Init ==
    EngineInit /\ SampleIdle /\ StatsIdle /\ SessionIdle /\ ScriptIdle /\ DashIdle

\* what a step of run_simulation leaves alone
outsideVars == <<sampleVars, statsVars, sessionVars, scriptVars, dashVars>>

Next ==
    \/ (\E c \in Configs : RunSimulation(c)) /\ UNCHANGED outsideVars
    \/ SampleTef /\ UNCHANGED outsideVars
    \/ DrawEvents /\ UNCHANGED outsideVars
    \/ LoopIteration /\ UNCHANGED outsideVars
    \/ StoreResults /\ UNCHANGED outsideVars
    \/ ReturnStatistics /\ UNCHANGED outsideVars

Spec == Init /\ [][Next]_vars

\* one FAIRDistribution.sample call
InitSample ==
    EngineInit /\ n_simulations = 1 /\ SampleInit /\ StatsIdle /\ SessionIdle
      /\ ScriptIdle /\ DashIdle

NextSample ==
    CallSample
      /\ UNCHANGED <<engineVars, statsVars, sessionVars, scriptVars, dashVars>>

SpecSample == InitSample /\ [][NextSample]_vars

\* one _calculate_statistics call
InitStats ==
    EngineInit /\ n_simulations = 1 /\ SampleIdle /\ StatsInit /\ SessionIdle
      /\ ScriptIdle /\ DashIdle

NextStats ==
    CallStatistics
      /\ UNCHANGED <<engineVars, sampleVars, sessionVars, scriptVars, dashVars>>

SpecStats == InitStats /\ [][NextStats]_vars

\* a session of at most MaxCalls run_simulation calls on one engine
InitSession ==
    EngineInit /\ n_simulations >= 0 /\ SampleIdle /\ StatsIdle /\ SessionIdle
      /\ ScriptIdle /\ DashIdle

outsideSession == <<sampleVars, statsVars, scriptVars, dashVars>>

NextSession ==
    \/ /\ callCount < MaxCalls
       /\ \E c \in SessionConfigs : RunSimulation(c)
       /\ shown' = NoOutput
       /\ UNCHANGED <<callCount, everReturned, outsideSession>>
    \/ SampleTef /\ UNCHANGED outsideVars
    \/ DrawEvents /\ UNCHANGED outsideVars
    \/ LoopIteration /\ UNCHANGED outsideVars
    \/ StoreResults /\ UNCHANGED outsideVars
    \/ ReturnStatistics /\ UNCHANGED outsideVars
    \/ CallEnds /\ UNCHANGED outsideSession
    \/ SessionPrint /\ UNCHANGED outsideSession
    \/ SessionPlot /\ UNCHANGED outsideSession
    \/ SessionExport /\ UNCHANGED outsideSession

SpecSession == InitSession /\ [][NextSession]_vars

\* one execution of run_custom_scenario
InitTemplate ==
    /\ EngineInit /\ n_simulations >= 1
    /\ SampleIdle /\ StatsIdle /\ SessionIdle
    /\ t_pc = "run"
    /\ t_log = <<>>
    /\ DashIdle

outsideScript == <<sampleVars, statsVars, dashVars>>

NextTemplate ==
    \/ (\E c \in TemplateConfigs : ScriptRun(c)) /\ UNCHANGED outsideScript
    \/ SampleTef /\ UNCHANGED outsideVars
    \/ DrawEvents /\ UNCHANGED outsideVars
    \/ LoopIteration /\ UNCHANGED outsideVars
    \/ StoreResults /\ UNCHANGED outsideVars
    \/ ReturnStatistics /\ UNCHANGED outsideVars
    \/ ScriptAbort /\ UNCHANGED outsideScript
    \/ ScriptPrint /\ UNCHANGED outsideScript
    \/ ScriptPlot /\ UNCHANGED outsideScript
    \/ ScriptExport /\ UNCHANGED outsideScript
    \/ ScriptRecommend /\ UNCHANGED outsideScript
    \/ ScriptSummary /\ UNCHANGED outsideScript

SpecTemplate == InitTemplate /\ [][NextTemplate]_vars

\* one browser session of the dashboard: at most MaxCalls Run clicks
InitDashboard ==
    /\ EngineInit /\ n_simulations = 1
    /\ SampleIdle /\ StatsIdle /\ SessionIdle /\ ScriptIdle
    /\ d_pc = "idle"
    /\ widgets \in DashSettings
    /\ session_state = InitialSessionState
    /\ page = Render(InitialSessionState, widgets)
    /\ origin = NoOrigin

outsideDash == <<sampleVars, statsVars, scriptVars>>

NextDashboard ==
    \/ DashClick /\ UNCHANGED outsideDash
    \/ DashRun /\ UNCHANGED outsideDash
    \/ SampleTef /\ UNCHANGED outsideVars
    \/ DrawEvents /\ UNCHANGED outsideVars
    \/ LoopIteration /\ UNCHANGED outsideVars
    \/ StoreResults /\ UNCHANGED outsideVars
    \/ ReturnStatistics /\ UNCHANGED outsideVars
    \/ DashStore /\ UNCHANGED outsideDash
    \/ DashFail /\ UNCHANGED outsideDash
    \/ DashWidgetChange /\ UNCHANGED outsideDash
    \/ DashRerun /\ UNCHANGED outsideDash

SpecDashboard == InitDashboard /\ [][NextDashboard]_vars

(***************************************************************************)
(* Properties.                                                             *)
(***************************************************************************)
Ended == pc \in {"done", "failed"}
TheCfg == Val(cfg)
TheStats == Val(ret)
Stored == Val(results)

\* sample never raises for this spec
Sampleable(d) == \A o \in Sample(d, 1) : o.err = ""

InUnitInterval(f) == FracLeq(Frac(0, 1), f) /\ FracLeq(f, Frac(1, 1))

\* the call took nothing from the sampler nor from the random source
NothingSampled ==
    /\ rngCalls = 0
    /\ rngDraws = 0
    /\ tef_samples = <<>>
    /\ actual_events = <<>>

\* the parts of a configuration that are valid
DistsValid(c) ==
    /\ Sampleable(c.tef_dist)
    /\ Sampleable(c.primary_loss_dist)
    /\ IsNone(c.secondary_loss_dist) \/ Sampleable(Val(c.secondary_loss_dist))
VulnValid(c) == InUnitInterval(c.vuln_prob)
SecondaryProbValid(c) == InUnitInterval(c.secondary_loss_prob)

AllEventsZero == \A k \in 1..Len(actual_events) : actual_events[k] = 0
NoPositiveLoss == \A k \in 1..Len(annual_losses) : annual_losses[k] <= 0

\* C1: a completed run with vuln_prob = 0 has every loss-event rate, every
\* realized event count and every annual loss equal to 0, ale_mean = 0 and
\* probability_of_loss = 0; and with vuln_prob = 0 and n_simulations >= 1 the
\* only failure is the TEF sampler's
C1_ZeroVulnerability ==
    /\ (pc = "done" /\ FracZero(TheCfg.vuln_prob)) =>
         /\ \A k \in 1..n_simulations :
              /\ FracZero(Stored.lef_samples[k])
              /\ Stored.actual_events[k] = 0
              /\ Stored.annual_losses[k] = 0
         /\ FracZero(TheStats.ale_mean)
         /\ FracZero(TheStats.probability_of_loss)
    /\ (pc = "failed" /\ FracZero(TheCfg.vuln_prob) /\ n_simulations >= 1) =>
         err.at = "tef_dist.sample"

C1_Witness ==
    /\ pc = "done"
    /\ FracZero(TheCfg.vuln_prob)
    /\ n_simulations >= 2
    /\ \E k \in 1..n_simulations : tef_samples[k] > 0
    /\ ~Sampleable(TheCfg.primary_loss_dist)

\* C2: a run_simulation call with n_simulations <= 0 (the configuration being
\* valid otherwise) fails with a ValueError, before any call on the random
\* source, and returns no statistics
C2_RejectsNonPositiveCount ==
    (Ended /\ n_simulations <= 0 /\ DistsValid(TheCfg) /\ VulnValid(TheCfg)
       /\ SecondaryProbValid(TheCfg)) =>
        /\ pc = "failed"
        /\ err.type = "ValueError"
        /\ rngCalls = 0
        /\ ret = None

\* C3: a run_simulation call with vuln_prob outside [0, 1] (the configuration
\* being valid otherwise) fails with a ValueError before anything is sampled
C3_RejectsVulnOutsideUnit ==
    (Ended /\ ~VulnValid(TheCfg) /\ n_simulations >= 1 /\ DistsValid(TheCfg)
       /\ SecondaryProbValid(TheCfg)) =>
        /\ pc = "failed"
        /\ err.type = "ValueError"
        /\ NothingSampled

\* C4: a run_simulation call with a secondary-loss spec and a
\* secondary_loss_prob outside [0, 1] (the configuration being valid
\* otherwise) fails: it returns no statistics
C4_RejectsSecondaryProbOutsideUnit ==
    (Ended /\ ~IsNone(TheCfg.secondary_loss_dist) /\ ~SecondaryProbValid(TheCfg)
       /\ n_simulations >= 1 /\ DistsValid(TheCfg) /\ VulnValid(TheCfg)) =>
        /\ pc = "failed"
        /\ ret = None

\* C5: a failed run_simulation call leaves self.results as it was before the
\* call and returns no statistics
C5_FailureLeavesResults ==
    pc = "failed" => (results = prev_results /\ ret = None)

\* C6: after a completed run the four stored sequences annual_losses,
\* lef_samples, actual_events and tef_samples each have length n_simulations
C6_ResultLengths ==
    pc = "done" =>
        /\ n_simulations >= 1
        /\ ~IsNone(results)
        /\ Len(Stored.annual_losses) = n_simulations
        /\ Len(Stored.lef_samples) = n_simulations
        /\ Len(Stored.actual_events) = n_simulations
        /\ Len(Stored.tef_samples) = n_simulations

C6_Witness ==
    /\ pc = "done"
    /\ n_simulations = MaxSims
    /\ \E k \in 1..n_simulations : Stored.actual_events[k] > 0
    /\ \E k \in 1..n_simulations : Stored.actual_events[k] = 0

\* every primary-loss sample is > 0 and every secondary-loss sample is >= 0
LossesPositive(c) ==
    /\ \A o \in Sample(c.primary_loss_dist, 1) :
         o.err = "" => \A j \in 1..Len(o.vals) : o.vals[j] > 0
    /\ IsNone(c.secondary_loss_dist)
         \/ \A o \in Sample(Val(c.secondary_loss_dist), 1) :
              o.err = "" => \A j \in 1..Len(o.vals) : o.vals[j] >= 0

\* C7 as claimed: after a completed run probability_of_loss lies in [0, 1] and
\* is 0 if and only if every realized event count is 0
C7_ZeroIffNoEvents ==
    pc = "done" =>
        /\ InUnitInterval(TheStats.probability_of_loss)
        /\ FracZero(TheStats.probability_of_loss) <=> AllEventsZero

\* C7 as amended: after a completed run probability_of_loss lies in [0, 1]; it
\* is 0 exactly when no run has an annual loss > 0, hence whenever every
\* realized event count is 0; it is 0 only if every realized event count is 0
\* when every primary-loss sample is > 0 and every secondary-loss sample >= 0
C7_ZeroIffNoPositiveLoss ==
    pc = "done" =>
        /\ InUnitInterval(TheStats.probability_of_loss)
        /\ FracZero(TheStats.probability_of_loss) <=> NoPositiveLoss
        /\ AllEventsZero => FracZero(TheStats.probability_of_loss)
        /\ (FracZero(TheStats.probability_of_loss) /\ LossesPositive(TheCfg))
             => AllEventsZero

C7_Witness ==
    /\ pc = "done"
    /\ ~AllEventsZero
    /\ FracZero(TheStats.probability_of_loss)
    /\ TheCfg.primary_loss_dist.dist_type = "uniform"

\* the statistics a stand-alone call returned
OutStats == Val(st_out.stats)
Pct(k) == OutStats.percentiles[k]

\* C8: for a sequence of annual losses of length >= 1 the seven percentiles are
\* non-decreasing in rank and lie between ale_min and ale_max
C8_PercentilesMonotone ==
    (st_pc = "returned" /\ Len(st_losses) >= 1) =>
        /\ st_out.err = ""
        /\ FracLeq(Pct("10th"), Pct("25th"))
        /\ FracLeq(Pct("25th"), Pct("50th"))
        /\ FracLeq(Pct("50th"), Pct("75th"))
        /\ FracLeq(Pct("75th"), Pct("90th"))
        /\ FracLeq(Pct("90th"), Pct("95th"))
        /\ FracLeq(Pct("95th"), Pct("99th"))
        /\ \A k \in PercentileKeys :
             /\ FracLeq(Frac(OutStats.ale_min, 1), Pct(k))
             /\ FracLeq(Pct(k), Frac(OutStats.ale_max, 1))

C8_Witness ==
    /\ st_pc = "returned"
    /\ Len(st_losses) = 3
    /\ st_losses[1] > st_losses[2]
    /\ st_losses[3] > st_losses[1]
    /\ FracLess(Pct("10th"), Pct("50th"))
    /\ FracLess(Pct("50th"), Pct("99th"))
    /\ FracLess(Pct("99th"), Frac(OutStats.ale_max, 1))

\* C9: sample on a spec whose dist_type is none of 'pert', 'lognormal',
\* 'uniform', 'triangular' raises a ValueError whose message names the
\* dist_type, for every size, and takes nothing from the random source
C9_UnknownKindRejected ==
    (s_pc = "returned" /\ s_dist.dist_type \notin KnownTypes) =>
        /\ s_out.err = "ValueError"
        /\ s_out.msg = <<"Unknown distribution type: ", s_dist.dist_type>>
        /\ s_out.vals = <<>>
        /\ s_out.calls = 0
        /\ s_out.draws = 0

C9_Witness ==
    /\ s_pc = "returned"
    /\ s_dist.dist_type = "PERT"
    /\ s_dist.min_val < s_dist.max_val
    /\ s_size = MaxSize
    /\ s_out.err = "ValueError"

\* C10: sample on a PERT spec with min_val = max_val returns size copies of
\* min_val, without a call on the random source and without error, for every
\* size >= 0 and every mode_val, a mode that was not supplied included
C10_DegeneratePert ==
    (s_pc = "returned" /\ s_dist.dist_type = "pert"
       /\ s_dist.min_val = s_dist.max_val /\ s_size >= 0) =>
        /\ s_out.err = ""
        /\ s_out.vals = [k \in 1..s_size |-> s_dist.min_val]
        /\ s_out.calls = 0

\* a valid spec: a known dist_type, min_val <= mode_val <= max_val (min_val <=
\* max_val for 'uniform', which has no mode) and, for 'lognormal', positive
\* parameters
ValidSpec(d) ==
    /\ d.dist_type \in KnownTypes
    /\ d.min_val <= d.max_val
    /\ d.dist_type # "uniform" =>
         /\ ~IsNone(d.mode_val)
         /\ d.min_val <= Val(d.mode_val)
         /\ Val(d.mode_val) <= d.max_val
    /\ d.dist_type = "lognormal" => d.min_val > 0

BoundedTypes == {"pert", "uniform", "triangular"}

\* C11: sample on a valid spec returns exactly size values, for every size
\* >= 0, and for 'pert', 'uniform' and 'triangular' every value v returned
\* satisfies min_val <= v <= max_val
C11_SampleCountAndRange ==
    (s_pc = "returned" /\ ValidSpec(s_dist) /\ s_size >= 0) =>
        /\ s_out.err = ""
        /\ Len(s_out.vals) = s_size
        /\ s_dist.dist_type \in BoundedTypes =>
             \A j \in 1..Len(s_out.vals) :
                 /\ s_dist.min_val <= s_out.vals[j]
                 /\ s_out.vals[j] <= s_dist.max_val

\* the spec takes the min/mode/max parametrization of 'lognormal' (line 51
\* fails) with a non-positive min_val or mode_val
NonPositiveLognormal(d) ==
    /\ d.dist_type = "lognormal"
    /\ IsNone(d.mean) \/ IsNone(d.std)
    /\ ~IsNone(d.mode_val)
    /\ d.min_val <= 0 \/ Val(d.mode_val) <= 0

\* C12: sample on a 'lognormal' spec in the min/mode/max parametrization with
\* a non-positive min_val or mode_val raises an exception, and never returns
\* values computed from the logarithm of a non-positive number
C12_LognormalDomainError ==
    (s_pc = "returned" /\ NonPositiveLognormal(s_dist)) =>
        /\ s_out.err # ""
        /\ ~s_out.undefined

\* the loop is at run i, which has k = actual_events[i] events
AtRun == pc = "loop" /\ i <= n_simulations
\* the loop is over
LoopOver == pc \in {"statistics", "done"}

\* C13: a run whose realized event count is 0 has an annual loss of exactly 0,
\* and its pass through the loop takes nothing from the random source: no
\* primary-loss sample, no Bernoulli trial, no secondary-loss sample
C13_ZeroEventRuns ==
    /\ [][(AtRun /\ actual_events[i] = 0) =>
            /\ annual_losses[i] = 0
            /\ annual_losses' = annual_losses
            /\ rngCalls' = rngCalls
            /\ rngDraws' = rngDraws
            /\ UNCHANGED <<primary_losses, has_secondary, secondary_samples>>]_vars
    /\ [](LoopOver =>
            \A k \in 1..n_simulations :
                Stored.actual_events[k] = 0 => Stored.annual_losses[k] = 0)

C13_Witness ==
    /\ pc = "done"
    /\ SecondaryApplies(TheCfg)
    /\ \E k \in 1..n_simulations :
         /\ Stored.actual_events[k] = 0
         /\ Stored.lef_samples[k].num > 0
    /\ \E k \in 1..n_simulations :
         /\ Stored.actual_events[k] > 0
         /\ Stored.annual_losses[k] > 0

\* no secondary loss can occur: no secondary-loss spec, or a probability of 0
NoSecondary(c) == IsNone(c.secondary_loss_dist) \/ FracZero(c.secondary_loss_prob)

\* configuration c with secondary_loss_prob q
WithSecondaryProb(c, q) == [c EXCEPT !.secondary_loss_prob = q]
\* configuration c without a secondary-loss spec, the probability left at 0
WithoutSecondary(c) ==
    [c EXCEPT !.secondary_loss_dist = None, !.secondary_loss_prob = Frac(0, 1)]

\* C14: without a secondary-loss spec the pass for a run with k > 0 events is
\* the same for every secondary_loss_prob: it draws k primary-loss samples in
\* one call, no Bernoulli trial and no secondary-loss sample, and the annual
\* loss is the sum of the primary-loss samples only; likewise with a
\* secondary-loss spec and secondary_loss_prob = 0
C14_SecondaryProbIrrelevant ==
    /\ [][(AtRun /\ actual_events[i] > 0 /\ NoSecondary(TheCfg) /\ pc' = "loop") =>
            /\ Len(primary_losses') = actual_events[i]
            /\ annual_losses'[i] = SumSeq(primary_losses')
            /\ rngCalls' = rngCalls + 1
            /\ rngDraws' = rngDraws + actual_events[i]
            /\ UNCHANGED <<has_secondary, secondary_samples>>]_vars
    /\ []((AtRun /\ actual_events[i] > 0 /\ NoSecondary(TheCfg)) =>
            \A q \in SecondaryProbs :
                (IsNone(TheCfg.secondary_loss_dist) \/ FracZero(q)) =>
                    LossOfRun(WithSecondaryProb(TheCfg, q), actual_events[i])
                      = LossOfRun(WithoutSecondary(TheCfg), actual_events[i]))

C14_WitnessZeroProb ==
    /\ pc = "done"
    /\ ~IsNone(TheCfg.secondary_loss_dist)
    /\ Sampleable(Val(TheCfg.secondary_loss_dist))
    /\ FracZero(TheCfg.secondary_loss_prob)
    /\ n_simulations = 1
    /\ Stored.actual_events[1] = 2
    /\ Stored.annual_losses[1] = 2
    /\ rngDraws = 4

C14_Witness ==
    /\ pc = "done"
    /\ IsNone(TheCfg.secondary_loss_dist)
    /\ FracLess(Frac(1, 1), TheCfg.secondary_loss_prob)
    /\ Stored.actual_events[1] > 0
    /\ Stored.annual_losses[1] > 0

\* the sum of the values of s whose own trial in b succeeded
RECURSIVE SumWhere(_, _)
SumWhere(b, s) ==
    IF Len(s) = 0 THEN 0
    ELSE (IF Head(b) THEN Head(s) ELSE 0) + SumWhere(Tail(b), Tail(s))

\* a secondary-loss spec and a secondary_loss_prob > 0 are configured
SecondaryConfigured(c) ==
    ~IsNone(c.secondary_loss_dist) /\ FracLess(Frac(0, 1), c.secondary_loss_prob)

\* C20: the pass for a run with k = actual_events[i] > 0 events draws exactly k
\* primary-loss samples and, when a secondary-loss spec and a probability > 0
\* are configured, exactly k Bernoulli trials and exactly k secondary-loss
\* samples whatever the trials gave; annual_losses[i] becomes the sum of the
\* primary-loss samples plus the sum of the secondary-loss samples whose own
\* trial succeeded
C20_DrawsPerRun ==
    [][(AtRun /\ actual_events[i] > 0 /\ pc' = "loop") =>
         /\ Len(primary_losses') = actual_events[i]
         /\ IF SecondaryConfigured(TheCfg)
            THEN /\ Len(has_secondary') = actual_events[i]
                 /\ Len(secondary_samples') = actual_events[i]
                 /\ rngCalls' = rngCalls + 3
                 /\ rngDraws' = rngDraws + 3 * actual_events[i]
                 /\ annual_losses'[i] =
                      SumSeq(primary_losses')
                        + SumWhere(has_secondary', secondary_samples')
            ELSE /\ rngCalls' = rngCalls + 1
                 /\ rngDraws' = rngDraws + actual_events[i]
                 /\ annual_losses'[i] = SumSeq(primary_losses')
         /\ \A k \in 1..n_simulations :
              k # i => annual_losses'[k] = annual_losses[k]]_vars

C20_Witness ==
    /\ pc = "loop"
    /\ i = 2
    /\ actual_events[1] = 2
    /\ SecondaryConfigured(TheCfg)
    /\ Len(has_secondary) = 2
    /\ has_secondary[1]
    /\ ~has_secondary[2]
    /\ secondary_samples = <<1, 1>>
    /\ primary_losses = <<1, 2>>
    /\ annual_losses[1] = 4

\* the caller is in control and the last run_simulation call completed / failed
LastCompleted ==
    pc = "done" \/ (pc = "idle" /\ callCount > 0 /\ err.type = "")
LastFailed ==
    pc = "failed" \/ (pc = "idle" /\ callCount > 0 /\ err.type # "")

\* the four sequences the last call computed
LastRun == ResultsDict(annual_losses, lef_samples, actual_events, tef_samples)

\* C16: after any sequence of run_simulation calls the stored results are the
\* four sequences of the most recent completed run and nothing else: None
\* before the first call, the sequences of the call that just completed, with
\* the statistics returned computed from the stored annual_losses and
\* lef_samples, and after a failed call what was stored when it started
C16_StoredIsLastCompleted ==
    /\ (pc = "idle" /\ callCount = 0) => results = None
    /\ LastCompleted =>
         /\ results = Some(LastRun)
         /\ ret = CalculateStatistics(Stored.annual_losses, Stored.lef_samples).stats
    /\ LastFailed => results = prev_results

\* C17: print_results, plot_results and export_results leave the stored
\* results and the statistics record they are given as they were
C17_PresentationReadsOnly ==
    [][(pc = "idle" /\ pc' = "idle") => (results' = results /\ ret' = ret)]_vars

C17_Witness ==
    /\ pc = "idle"
    /\ shown.op = "plot_results"
    /\ ~IsNone(shown.figure)
    /\ Val(shown.figure).sorted_losses # Stored.annual_losses
    /\ Val(shown.figure).hist_annual_losses = Stored.annual_losses
    /\ callCount = 2

ExportColumns ==
    <<"annual_loss", "loss_event_frequency", "threat_event_frequency",
      "actual_events">>
ScalarFields ==
    {"ale_mean", "ale_median", "ale_std", "ale_min", "ale_max", "lef_mean",
     "lef_median", "probability_of_loss", "mean_loss_given_event"}

\* frame has exactly the four columns, in this order, holding the sequences
\* of the stored results r
HoldsResults(frame, r) ==
    /\ frame.columns = ExportColumns
    /\ DOMAIN frame = {"columns"} \cup {ExportColumns[k] : k \in 1..4}
    /\ frame.annual_loss = r.annual_losses
    /\ frame.loss_event_frequency = r.lef_samples
    /\ frame.threat_event_frequency = r.tef_samples
    /\ frame.actual_events = r.actual_events

\* the CSV file of an export is the stored results, column by column, as is
\* the dashboard's CSV download
TabularExport ==
    /\ (shown.op = "export_results" /\ ~IsNone(shown.csv)) =>
         HoldsResults(Val(shown.csv).frame, Stored)
    /\ ~IsNone(results) => HoldsResults(RawDataDf(Stored), Stored)

\* C18 as claimed: the tabular export has exactly the columns annual_loss,
\* loss_event_frequency, threat_event_frequency, actual_events holding the
\* stored annual_losses, lef_samples, tef_samples, actual_events; the fields
\* of the statistics record are exactly the seven percentile keys and the
\* nine named statistics
C18_FlatStatisticsRecord ==
    /\ TabularExport
    /\ ~IsNone(ret) => DOMAIN TheStats = PercentileKeys \cup ScalarFields

\* C18 as amended: the tabular export as claimed; the fields of the
\* statistics record are exactly the nine named statistics and percentiles,
\* and the keys of percentiles are exactly the seven percentile keys; the
\* JSON export holds that record under statistics
C18_ExportFields ==
    /\ TabularExport
    /\ ~IsNone(ret) =>
         /\ DOMAIN TheStats = ScalarFields \cup {"percentiles"}
         /\ DOMAIN TheStats.percentiles = PercentileKeys
    /\ (shown.op = "export_results" /\ ~IsNone(shown.json)) =>
         /\ DOMAIN Val(shown.json).data
              = {"scenario_name", "n_simulations", "statistics"}
         /\ Val(shown.json).data.statistics = ret

C18_Witness ==
    /\ pc = "idle"
    /\ shown.op = "export_results"
    /\ ~IsNone(shown.csv)
    /\ ~IsNone(ret)
    /\ n_simulations = 2
    /\ Stored.actual_events = <<1, 0>>
    /\ Stored.annual_losses = <<2, 0>>
    /\ Val(shown.json).data.statistics = ret

PlotReports == {"Plot saved", "Could not save plot"}
ExportReports == {"Results exported", "Could not export results"}

\* C19: in run_custom_scenario an exception of run_simulation leaves the
\* script before anything is printed, plotted or exported; an exception of
\* plot_results or of export_results is reported and the script goes on: the
\* export is attempted whatever the plot did, and the recommendations and the
\* summary follow whatever the plot and the export did
C19_TemplateFailures ==
    /\ [](pc = "failed" =>
            (t_pc \in {"running", "aborted"} /\ t_log = <<>> /\ shown = NoOutput))
    /\ [](t_pc = "aborted" => (pc = "failed" /\ t_log = <<>> /\ shown = NoOutput))
    /\ [][(t_pc = "running" /\ pc = "failed") => t_pc' = "aborted"]_vars
    /\ [](t_pc = "plot" => ENABLED ScriptPlot)
    /\ [][t_pc = "plot" =>
            (t_pc' = "export" /\ t_log' \in {Append(t_log, a) : a \in PlotReports})]_vars
    /\ [](t_pc = "export" => ENABLED ScriptExport)
    /\ [][t_pc = "export" =>
            (t_pc' = "recommendations"
               /\ t_log' \in {Append(t_log, a) : a \in ExportReports})]_vars
    /\ [](t_pc = "recommendations" => ENABLED ScriptRecommend)
    /\ [](t_pc = "summary" => ENABLED ScriptSummary)
    /\ [](t_pc = "end" =>
            t_log \in {<<"results printed", a, b, "recommendations", "summary">> :
                         a \in PlotReports, b \in ExportReports})

C19_Witness ==
    /\ t_pc = "end"
    /\ t_log = <<"results printed", "Could not save plot",
                 "Could not export results", "recommendations", "summary">>
    /\ shown.err.type = "OSError"

C19_WitnessAbort ==
    /\ t_pc = "aborted"
    /\ err.at = "primary_loss_dist.sample"
    /\ rngDraws > 0

\* the runs of losses with an annual loss > 0, and the sum of their losses
PositiveRuns(losses) == {k \in 1..Len(losses) : losses[k] > 0}
RECURSIVE SumAt(_, _)
SumAt(losses, S) ==
    IF S = {} THEN 0
    ELSE LET k == CHOOSE x \in S : TRUE
         IN  losses[k] + SumAt(losses, S \ {k})

\* C21: for a sequence of annual losses of length n >= 1, probability_of_loss
\* is (number of runs with annual loss > 0) / n and mean_loss_given_event is
\* the mean of the annual losses > 0, or 0 when there is none; it is never
\* below ale_mean when no annual loss is negative
C21_LossProbabilityAndMean ==
    (st_pc = "returned" /\ Len(st_losses) >= 1) =>
        LET pos == PositiveRuns(st_losses)
        IN  /\ st_out.err = ""
            /\ OutStats.probability_of_loss.den > 0
            /\ FracEq(OutStats.probability_of_loss,
                      Frac(Cardinality(pos), Len(st_losses)))
            /\ OutStats.mean_loss_given_event.den > 0
            /\ IF pos = {}
               THEN FracZero(OutStats.mean_loss_given_event)
               ELSE FracEq(OutStats.mean_loss_given_event,
                           Frac(SumAt(st_losses, pos), Cardinality(pos)))
            /\ (\A k \in 1..Len(st_losses) : st_losses[k] >= 0) =>
                 FracLeq(OutStats.ale_mean, OutStats.mean_loss_given_event)

C21_Witness ==
    /\ st_pc = "returned"
    /\ Len(st_losses) = 3
    /\ \E k \in 1..3 : st_losses[k] < 0
    /\ Cardinality(PositiveRuns(st_losses)) = 2
    /\ FracEq(OutStats.mean_loss_given_event, Frac(3, 2))
    /\ FracEq(OutStats.probability_of_loss, Frac(2, 3))

\* the sum of a sequence of fractions
RECURSIVE FracSum(_)
FracSum(fs) ==
    IF Len(fs) = 0 THEN Frac(0, 1)
    ELSE LET h == Head(fs)
             t == FracSum(Tail(fs))
         IN  Frac(h.num * t.den + t.num * h.den, h.den * t.den)

\* x is an r-th smallest of the fractions fs
IsRanked(fs, x, r) ==
    /\ Cardinality({k \in 1..Len(fs) : FracLeq(fs[k], x)}) >= r
    /\ Cardinality({k \in 1..Len(fs) : FracLeq(x, fs[k])}) >= Len(fs) - r + 1

\* m is the median of the fractions fs: the mean of the two middle ones
IsMedian(fs, m) ==
    LET n == Len(fs)
    IN  \E a, b \in 1..n :
            /\ IsRanked(fs, fs[a], (n + 1) \div 2)
            /\ IsRanked(fs, fs[b], n \div 2 + 1)
            /\ FracEq(m, Frac(fs[a].num * fs[b].den + fs[b].num * fs[a].den,
                              2 * fs[a].den * fs[b].den))

\* C22: lef_samples[k] = tef_samples[k] * vuln_prob for every run k; the
\* event counts are drawn from the rates lef_samples, which are then all
\* >= 0, and a run whose rate is 0 has 0 events; lef_mean and lef_median are
\* the mean and the median of the stored lef_samples
C22_LossEventFrequency ==
    /\ pc \in {"poisson", "loop", "statistics", "done"} =>
         /\ Len(lef_samples) = Len(tef_samples)
         /\ \A k \in 1..Len(tef_samples) :
              FracEq(lef_samples[k],
                     Frac(tef_samples[k] * TheCfg.vuln_prob.num, TheCfg.vuln_prob.den))
    /\ pc \in {"loop", "statistics", "done"} =>
         \A k \in 1..Len(lef_samples) :
             /\ FracLeq(Frac(0, 1), lef_samples[k])
             /\ FracZero(lef_samples[k]) => actual_events[k] = 0
    /\ pc = "done" =>
         /\ Stored.lef_samples = lef_samples
         /\ FracEq(TheStats.lef_mean,
                   Frac(FracSum(Stored.lef_samples).num,
                        FracSum(Stored.lef_samples).den * n_simulations))
         /\ IsMedian(Stored.lef_samples, TheStats.lef_median)

C22_Witness ==
    /\ pc = "done"
    /\ n_simulations = 2
    /\ FracEq(TheCfg.vuln_prob, Frac(3, 2))
    /\ Stored.tef_samples = <<1, 0>>
    /\ Stored.actual_events = <<1, 0>>
    /\ FracEq(TheStats.lef_mean, Frac(3, 4))
    /\ FracEq(TheStats.lef_median, Frac(3, 4))

\* the annual losses a pass for a run can give
LossesOfRun(c, k) ==
    IF k = 0 THEN {0}
    ELSE {o.loss : o \in {x \in LossOfRun(c, k) : x.err.type = ""}}

\* C23: the pass of the loop for run i writes only annual_losses[i] and leaves
\* tef_samples, lef_samples, actual_events and every other entry of
\* annual_losses as they were; the value written is given by
\* actual_events[i] and the samples drawn in that pass alone; and the writes
\* of two different runs give the same annual_losses in either order
C23_RunsIndependent ==
    /\ [][(AtRun /\ pc' = "loop") =>
            /\ UNCHANGED <<tef_samples, lef_samples, actual_events>>
            /\ \A k \in 1..n_simulations :
                 k # i => annual_losses'[k] = annual_losses[k]
            /\ annual_losses'[i] =
                 IF actual_events[i] = 0 THEN 0
                 ELSE SumSeq(primary_losses')
                        + (IF SecondaryConfigured(TheCfg)
                           THEN SumWhere(has_secondary', secondary_samples')
                           ELSE 0)
            /\ actual_events[i] > 0 => Len(primary_losses') = actual_events[i]]_vars
    /\ [](AtRun =>
            \A a, b \in 1..n_simulations :
                a # b =>
                    \A la \in LossesOfRun(TheCfg, actual_events[a]),
                       lb \in LossesOfRun(TheCfg, actual_events[b]) :
                        WriteLoss(WriteLoss(annual_losses, a, la), b, lb)
                          = WriteLoss(WriteLoss(annual_losses, b, lb), a, la))

C23_Witness ==
    /\ pc = "loop"
    /\ i = 3
    /\ n_simulations = 2
    /\ actual_events = <<1, 1>>
    /\ annual_losses = <<3, 1>>
    /\ SecondaryConfigured(TheCfg)
    /\ primary_losses = <<1>>
    /\ has_secondary = <<FALSE>>

\* the distribution d without its mean and std
WithoutMoments(d) == [d EXCEPT !.mean = None, !.std = None]

BothMoments(d) == ~IsNone(d.mean) /\ ~IsNone(d.std)

\* C24: a lognormal with mean and std both supplied is sampled from them
\* alone, whatever min, mode and max are; a lognormal with neither or one of
\* them is sampled as the same distribution without mean and std; and a
\* pert, uniform or triangular distribution is sampled as the same
\* distribution without mean and std
C24_MomentsOnlyWhenBoth ==
    s_pc = "returned" =>
        /\ (s_dist.dist_type = "lognormal" /\ BothMoments(s_dist)) =>
              /\ s_out \in LognormalFromMoments(s_dist, s_size)
              /\ \A mn \in 0..2, md \in Modes, mx \in 0..2 :
                   Sample(Dist("lognormal", mn, md, mx, s_dist.mean, s_dist.std),
                          s_size)
                     = Sample(s_dist, s_size)
        /\ (s_dist.dist_type = "lognormal" /\ ~BothMoments(s_dist)) =>
              /\ s_out \in LognormalFromRange(s_dist, s_size)
              /\ Sample(s_dist, s_size) = Sample(WithoutMoments(s_dist), s_size)
        /\ s_dist.dist_type \in {"pert", "uniform", "triangular"} =>
              /\ s_out \in Sample(WithoutMoments(s_dist), s_size)
              /\ Sample(s_dist, s_size) = Sample(WithoutMoments(s_dist), s_size)

\* a lone mean is ignored: the missing mode_val is still what fails
C24_Witness ==
    /\ s_pc = "returned"
    /\ s_dist.dist_type = "lognormal"
    /\ s_dist.mean = Some(3)
    /\ IsNone(s_dist.std)
    /\ IsNone(s_dist.mode_val)
    /\ s_size = MaxSize
    /\ s_out.err = "TypeError"

\* mean and std both supplied: values beyond what min, mode and max give
C24_WitnessBoth ==
    /\ s_pc = "returned"
    /\ s_dist = Dist("lognormal", 1, None, 1, Some(3), Some(1))
    /\ s_size = MaxSize
    /\ s_out.err = ""
    /\ \E j \in 1..Len(s_out.vals) : s_out.vals[j] = 4

\* plot_results has just raised 'No simulation results available'
NoResultsRaised(out) ==
    /\ out.op = "plot_results"
    /\ out.err.type = "ValueError"
    /\ out.err.msg = <<"No simulation results available. Run simulation first.">>

\* C25: on one engine, a call of plot_results raises 'No simulation results
\* available' exactly when no run_simulation call on it has returned so far:
\* it raises before the first call and after calls that all failed, and it
\* does not raise once a call has returned
C25_PlotNeedsCompletedRun ==
    [][SessionPlot => (NoResultsRaised(shown') <=> ~everReturned)]_vars

\* plot_results after the first call has returned
C25_Witness ==
    /\ everReturned
    /\ callCount = 1
    /\ n_simulations >= 1
    /\ shown.op = "plot_results"
    /\ shown.err.type = ""

\* plot_results after a first call that failed in the sampler
C25_WitnessFailed ==
    /\ ~everReturned
    /\ callCount = 1
    /\ n_simulations >= 1
    /\ NoResultsRaised(shown)

\* C26: in the dashboard simulation_run is true only if stats and sim are
\* both set and are the statistics and the engine of one run_simulation call,
\* the last that returned; the results section is rendered only then; and a
\* Run click whose simulation raises leaves simulation_run, stats and sim as
\* they were
C26_SessionStateConsistent ==
    /\ [](session_state.simulation_run =>
            /\ ~IsNone(session_state.stats)
            /\ ~IsNone(session_state.sim)
            /\ session_state.stats = origin.stats
            /\ session_state.sim = origin.sim
            /\ ~IsNone(Val(session_state.sim).results)
            /\ session_state.stats =
                 CalculateStatistics(
                     Val(Val(session_state.sim).results).annual_losses,
                     Val(Val(session_state.sim).results).lef_samples).stats)
    /\ [](page.results =>
            /\ session_state.simulation_run
            /\ page.error = NoError
            /\ page.stats = session_state.stats
            /\ page.raw_data
                 = Some(RawDataDf(Val(Val(session_state.sim).results))))
    /\ [][DashFail => UNCHANGED session_state]_vars
    /\ [][session_state' # session_state => DashStore]_vars

\* a second Run click has failed and the section shows the first run
C26_Witness ==
    /\ d_pc = "idle"
    /\ callCount = 2
    /\ err.type # ""
    /\ session_state.simulation_run
    /\ page.results
    /\ Val(session_state.sim).n_simulations = 2
    /\ n_simulations = 1

\* C27: the parameters a rendered results section reports in its JSON export
\* and its text report are the widget values of the run that produced the
\* statistics it shows
C27_ReportedParameters ==
    page.results =>
        /\ page.stats = origin.stats
        /\ ~IsNone(page.export_data) =>
             Val(page.export_data).simulation_parameters
               = SimulationParameters(Val(origin.params))
        /\ ~IsNone(page.report) =>
             Val(page.report) = ReportParameters(Val(origin.params))

====
